---- MODULE Spec2Model ----
(***************************************************************************)
(* A model of the storage core of apint: BitWidth, the constructors and   *)
(* destructor of ApInt (src/src/apint/constructors.rs) and the bitwise     *)
(* engine (src/src/apint/bitwise.rs).                                      *)
(*                                                                         *)
(* A Digit (a u64) is modelled as the set of its bit positions that hold   *)
(* 1: a subset of 0..63.  An ApInt is a record                             *)
(*    [len |-> width, data |-> <<d0, d1, ...>>, cap |-> n]                 *)
(* with the digits least significant first; cap is the capacity of the     *)
(* heap allocation behind data.ext (0 for an Inline value).                *)
(***************************************************************************)
EXTENDS Integers, Sequences, FiniteSets, TLC

\* ------------------------------------------------------------------ bounds

\* The widest value built has MaxDigits digits.
MaxDigits == 2

\* At most MaxOps mutating operations are applied to a value before it is dropped.
MaxOps == 2

\* A collected Vec holds up to MaxSpare elements of capacity beyond its length.
MaxSpare == 1

\* --------------------------------------------------------------- Digit (u64)

\* Digit::BITS, the bit width of a digit.
BITS == 64

\* digit::ZERO and Digit::ONES.
ZERO == {}

ONES == 0 .. (BITS - 1)

SetMax(S) == CHOOSE x \in S : \A y \in S : y <= x

SetMin(S) == CHOOSE x \in S : \A y \in S : x <= y

\* u64::count_ones, count_zeros, leading_zeros, trailing_zeros of d.repr().
digit_count_ones(d) == Cardinality(d)

digit_count_zeros(d) == Cardinality(ONES \ d)

digit_leading_zeros(d) == IF d = {} THEN BITS ELSE (BITS - 1) - SetMax(d)

digit_trailing_zeros(d) == IF d = {} THEN BITS ELSE SetMin(d)

\* Digit::not_inplace, flip_all, set_all, unset_all.
digit_not(d) == ONES \ d

digit_flip_all(d) == ONES \ d

digit_set_all(d) == ONES

digit_unset_all(d) == ZERO

\* The closures |l, r| *l &= r, *l |= r, *l ^= r.
digit_and(l, r) == l \cap r

digit_or(l, r) == l \cup r

digit_xor(l, r) == (l \ r) \cup (r \ l)

\* Digit::get, set, unset, flip at an in-digit bit offset.
digit_get(d, bit) == bit \in d

digit_set(d, bit) == d \cup {bit}

digit_unset(d, bit) == d \ {bit}

digit_flip(d, bit) == IF bit \in d THEN d \ {bit} ELSE d \cup {bit}

\* ------------------------------------------------------------------ Results

None == << >>

Some(n) == << n >>

unwrap_or(o, dflt) == IF o = None THEN dflt ELSE o[1]

\* The ApInt-shaped placeholder of "no value" (nothing constructed, or dropped).
NoValue == [len |-> 0, data |-> << >>, cap |-> 0]

Ok(v) == [tag |-> "Ok", val |-> v]

Err(e) == [tag |-> e, val |-> NoValue]

Panic == [tag |-> "Panic", val |-> NoValue]

\* ----------------------------------------------------------------- BitWidth

to_usize(w) == w

\* BitWidth::excess_bits.
excess_bits(w) ==
    IF to_usize(w) % BITS = 0 THEN None ELSE Some(to_usize(w) % BITS)

\* required_digits that rounds down and adds one: one digit too many for a
\* width that is a multiple of 64.
required_digits_floor(w) == (to_usize(w) \div BITS) + 1

\* BitWidth::required_digits (required_blocks in constructors.rs).
required_digits(w) == ((to_usize(w) - 1) \div BITS) + 1

\* is_valid_pos that accepts every position of the digits, the unused ones too.
is_valid_pos_of_digits(w, pos) == pos < BITS * required_digits(w)

\* BitWidth::is_valid_pos.
is_valid_pos(w, pos) == pos < to_usize(w)

\* BitWidth::sign_bit_pos (msb_pos in bitwise.rs).
sign_bit_pos(w) == to_usize(w) - 1

\* Storage::from(BitWidth): Inline iff the width fits one digit.
storage(w) == IF to_usize(w) <= BITS THEN "Inl" ELSE "Ext"

\* BitWidth::new / TryFrom<usize>: a width is valid iff it is not zero.
bitwidth_valid(n) == n # 0

\* ------------------------------------------------------ results of operations

\* What a mutating operation leaves: the Result's tag and the receiver after it.
Done(v) == [tag |-> "Ok", val |-> v]

Fail(e, v) == [tag |-> e, val |-> v]

\* What a query returns: a number (usize) or a flag (bool).
Num(n) == [tag |-> "Ok", num |-> n, flag |-> FALSE]

Flag(b) == [tag |-> "Ok", num |-> 0, flag |-> b]

Status(t) == [tag |-> t, num |-> 0, flag |-> FALSE]

\* usize subtraction: an underflow panics (overflow checks) instead of a result.
usize_sub(x, y) == IF x >= y THEN Num(x - y) ELSE Status("Panic")

\* ------------------------------------------------------------- constructors

\* Digit::truncate / Digit::truncated take a width convertible to a BitWidth
\* of at most one digit and clear the bits at or above it.
truncate_ok(n) == bitwidth_valid(n) /\ n <= BITS

truncated(d, n) == d \cap (0 .. (n - 1))

\* ApInt::from_u8 .. from_u64: an Inline value holding the zero-extended val.
from_uint(width, val) == [len |-> width, data |-> << val >>, cap |-> 0]

from_u8(val) == from_uint(8, val)

from_u16(val) == from_uint(16, val)

from_u32(val) == from_uint(32, val)

from_u64(val) == from_uint(64, val)

\* from_iter that stores the digits most significant first.
from_iter_reversed(digits, cap) ==
    LET n == Len(digits)
    IN  IF n = 0 THEN Err("EmptyDigitSequence")
        ELSE IF n = 1 THEN Ok([len |-> BITS, data |-> << digits[1] >>, cap |-> 0])
        ELSE Ok([len |-> n * BITS,
                 data |-> [i \in 1 .. n |-> digits[n + 1 - i]],
                 cap |-> cap])

\* ApInt::from_iter; cap is the capacity of the Vec that collect() returned.
from_iter(digits, cap) ==
    LET n == Len(digits)
    IN  IF n = 0 THEN Err("EmptyDigitSequence")
        ELSE IF n = 1 THEN Ok([len |-> BITS, data |-> << digits[1] >>, cap |-> 0])
        ELSE IF ~bitwidth_valid(n * BITS) THEN Panic
        ELSE Ok([len |-> n * BITS, data |-> digits, cap |-> cap])

\* ApInt::from_u128: the low and the high 64 bits in a vec![..] of exactly two.
from_u128(val) ==
    LET lo == {i \in val : i < BITS}
        hi == {i - BITS : i \in {j \in val : j >= BITS}}
        buffer == << lo, hi >>
        r == from_iter(buffer, Len(buffer))
    IN  IF Len(buffer) # 2 \/ r.tag # "Ok" THEN Panic ELSE r

\* ApInt::repeat_digit.
repeat_digit(bitwidth, digit) ==
    IF storage(bitwidth) = "Inl"
    THEN IF ~truncate_ok(to_usize(bitwidth)) THEN Panic
         ELSE Ok([len |-> bitwidth,
                  data |-> << truncated(digit, to_usize(bitwidth)) >>,
                  cap |-> 0])
    ELSE LET req_blocks == required_digits(bitwidth)
             buffer == [i \in 1 .. req_blocks |-> digit]
             capacity == req_blocks
             last_width == to_usize(bitwidth) % BITS
         IN  IF ~truncate_ok(last_width) THEN Panic
             ELSE IF capacity # req_blocks THEN Panic
             ELSE Ok([len |-> bitwidth,
                      data |-> [buffer EXCEPT
                                  ![req_blocks] = truncated(digit, last_width)],
                      cap |-> capacity])

\* ApInt::zero, ApInt::zeros and ApInt::ones.
zero(width) == repeat_digit(width, ZERO)

zeros(width) == zero(width)

ones(width) == repeat_digit(width, ONES)

\* ------------------------------------------------------------------- drop

\* ApInt::len_digits: the digit count derived from the recorded width.
len_digits(v) == required_digits(v.len)

\* impl Drop for ApInt: what is handed back to the allocator.  An External value
\* rebuilds Vec::from_raw_parts(ptr, len, len) over its allocation of v.cap digits
\* and drops it; an Inline value releases nothing.
drop(v) ==
    IF storage(v.len) = "Ext"
    THEN << [allocated |-> v.cap, length |-> len_digits(v), capacity |-> len_digits(v)] >>
    ELSE << >>

\* ------------------------------------------------------------ digit access

\* ApInt::as_digit_slice: the digits, least significant first.
as_digit_slice(v) == v.data

\* The closures handed to modify_digits, by the Digit method they call.
digit_apply(f, d) ==
    CASE f = "not_inplace" -> digit_not(d)
      [] f = "set_all" -> digit_set_all(d)
      [] f = "unset_all" -> digit_unset_all(d)
      [] f = "flip_all" -> digit_flip_all(d)

\* The closures handed to modify_zipped_digits, by their assignment operator.
digit_apply_zipped(f, l, r) ==
    CASE f = "&=" -> digit_and(l, r)
      [] f = "|=" -> digit_or(l, r)
      [] f = "^=" -> digit_xor(l, r)

\* ApInt::modify_digits: f applied to every digit in place.
modify_digits(v, f) ==
    [v EXCEPT !.data = [i \in DOMAIN v.data |-> digit_apply(f, v.data[i])]]

\* ApInt::clear_unused_bits: the top digit keeps its excess_bits low bits.
clear_unused_bits(v) ==
    IF excess_bits(v.len) # None
    THEN [v EXCEPT !.data[Len(v.data)] =
                       truncated(v.data[Len(v.data)], excess_bits(v.len)[1])]
    ELSE v

\* ApInt::modify_zipped_digits: the width check, then f over the digit pairs.
modify_zipped_digits(l, r, f) ==
    IF l.len # r.len THEN Fail("WidthMismatch", l)
    ELSE Done([l EXCEPT !.data =
                  [i \in DOMAIN l.data |-> digit_apply_zipped(f, l.data[i], r.data[i])]])

\* ApInt::split_most_significant_digit: (msb, rest).
split_most_significant_digit(v) ==
    [msb |-> v.data[Len(v.data)], rest |-> SubSeq(v.data, 1, Len(v.data) - 1)]

\* checks::verify_bit_access.
verify_bit_access(v, pos) == is_valid_pos(v.len, pos)

\* BitPos::to_digit_and_bit_pos.
to_digit_and_bit_pos(pos) == [digit_pos |-> pos \div BITS, bit_pos |-> pos % BITS]

\* forward_mut_impl: the moved value, after the in-place operation ran on it,
\* is returned.
forward_mut_impl(mutated) == mutated

\* try_forward_bin_mut_impl: the moved value is returned after a successful
\* in-place operation; after a failed one the error is returned and the moved
\* value is dropped.
try_forward_bin_mut_impl(r) ==
    IF r.tag = "Ok" THEN [tag |-> "Ok", val |-> r.val, released |-> << >>]
    ELSE [tag |-> r.tag, val |-> NoValue, released |-> drop(r.val)]

\* ------------------------------------------------------- bitwise operations

\* bitnot that never clears the unused bits of the top digit.
bitnot_unnormalized(v) == modify_digits(v, "not_inplace")

\* bitnot that clears the unused bits before flipping instead of after.
bitnot_clear_first(v) == modify_digits(clear_unused_bits(v), "not_inplace")

\* ApInt::bitnot.
bitnot(v) == clear_unused_bits(modify_digits(v, "not_inplace"))

\* ApInt::into_bitnot.
into_bitnot(v) == forward_mut_impl(bitnot(v))

\* bitand_assign and bitor_assign with the closure of another operation.
bitand_as_or(v, rhs) == modify_zipped_digits(v, rhs, "|=")

bitor_as_xor(v, rhs) == modify_zipped_digits(v, rhs, "^=")

\* ApInt::bitand_assign, bitor_assign, bitxor_assign.
bitand_assign(v, rhs) == modify_zipped_digits(v, rhs, "&=")

bitor_assign(v, rhs) == modify_zipped_digits(v, rhs, "|=")

bitxor_assign(v, rhs) == modify_zipped_digits(v, rhs, "^=")

\* ApInt::into_bitand, into_bitor, into_bitxor.
into_bitand(v, rhs) == try_forward_bin_mut_impl(bitand_assign(v, rhs))

into_bitor(v, rhs) == try_forward_bin_mut_impl(bitor_assign(v, rhs))

into_bitxor(v, rhs) == try_forward_bin_mut_impl(bitxor_assign(v, rhs))

\* ----------------------------------------------------------- bitwise access

\* The digit a valid position addresses: the only one of an Inline value,
\* digits[digit_pos] of an External one.
\* digit_index that always addresses the least significant digit.
digit_index_first(v, pos) == 1

digit_index(v, pos) ==
    IF storage(v.len) = "Inl" THEN 1 ELSE to_digit_and_bit_pos(pos).digit_pos + 1

bit_index(v, pos) ==
    IF storage(v.len) = "Inl" THEN pos ELSE to_digit_and_bit_pos(pos).bit_pos

\* ApInt::get_bit_at.
get_bit_at(v, pos) ==
    IF ~verify_bit_access(v, pos) THEN Status("InvalidBitPosition")
    ELSE Flag(digit_get(v.data[digit_index(v, pos)], bit_index(v, pos)))

\* set_bit_at that writes the digit before it checks the position.
set_bit_at_write_first(v, pos) ==
    LET written ==
            IF pos < BITS * required_digits(v.len)
            THEN [v EXCEPT !.data[(pos \div BITS) + 1] = digit_set(@, pos % BITS)]
            ELSE v
    IN  IF ~verify_bit_access(v, pos) THEN Fail("InvalidBitPosition", written)
        ELSE Done(written)

\* set_bit_at that calls Digit::flip where it should call Digit::set.
set_bit_at_as_flip(v, pos) ==
    IF ~verify_bit_access(v, pos) THEN Fail("InvalidBitPosition", v)
    ELSE Done([v EXCEPT !.data[digit_index(v, pos)] = digit_flip(@, bit_index(v, pos))])

\* ApInt::set_bit_at.
set_bit_at(v, pos) ==
    IF ~verify_bit_access(v, pos) THEN Fail("InvalidBitPosition", v)
    ELSE Done([v EXCEPT !.data[digit_index(v, pos)] = digit_set(@, bit_index(v, pos))])

\* ApInt::unset_bit_at.
unset_bit_at(v, pos) ==
    IF ~verify_bit_access(v, pos) THEN Fail("InvalidBitPosition", v)
    ELSE Done([v EXCEPT !.data[digit_index(v, pos)] = digit_unset(@, bit_index(v, pos))])

\* ApInt::flip_bit_at.
flip_bit_at(v, pos) ==
    IF ~verify_bit_access(v, pos) THEN Fail("InvalidBitPosition", v)
    ELSE Done([v EXCEPT !.data[digit_index(v, pos)] = digit_flip(@, bit_index(v, pos))])

\* ApInt::set_all.
set_all(v) == clear_unused_bits(modify_digits(v, "set_all"))

\* ApInt::unset_all.
unset_all(v) == modify_digits(v, "unset_all")

\* ApInt::flip_all.
flip_all(v) == clear_unused_bits(modify_digits(v, "flip_all"))

\* .expect(..) on the Result of a bit operation: an error panics.
expect(r) == IF r.tag = "Ok" THEN r ELSE Fail("Panic", r.val)

\* ApInt::set_msb, unset_msb, flip_msb.
set_msb(v) == expect(set_bit_at(v, sign_bit_pos(v.len)))

unset_msb(v) == expect(unset_bit_at(v, sign_bit_pos(v.len)))

flip_msb(v) == expect(flip_bit_at(v, sign_bit_pos(v.len)))

\* ApInt::is_all_set.
is_all_set(v) ==
    LET s == split_most_significant_digit(v)
    IN  IF excess_bits(v.len) # None
           /\ digit_count_ones(s.msb) # excess_bits(v.len)[1]
        THEN FALSE
        ELSE \A i \in DOMAIN s.rest : s.rest[i] = ONES

\* ApInt::is_zero, and ApInt::is_all_unset which forwards to it.
is_zero(v) == \A i \in DOMAIN v.data : v.data[i] = ZERO

is_all_unset(v) == is_zero(v)

\* ---------------------------------------------------------------- counting

RECURSIVE SumSeq(_)
SumSeq(q) == IF q = << >> THEN 0 ELSE Head(q) + SumSeq(Tail(q))

\* ApInt::count_ones.
count_ones(v) ==
    SumSeq([i \in DOMAIN as_digit_slice(v) |-> digit_count_ones(as_digit_slice(v)[i])])

\* count_zeros without the correction for the unused bits of the top digit.
count_zeros_uncorrected(v) ==
    Num(SumSeq([i \in DOMAIN as_digit_slice(v) |-> digit_count_zeros(as_digit_slice(v)[i])]))

\* ApInt::count_zeros.
count_zeros(v) ==
    LET zs == SumSeq([i \in DOMAIN as_digit_slice(v) |->
                            digit_count_zeros(as_digit_slice(v)[i])])
    IN  usize_sub(zs, BITS - unwrap_or(excess_bits(v.len), BITS))

\* The loop of leading_zeros: from the most significant digit down, stop after
\* the first digit that is not all zero.
RECURSIVE leading_loop(_, _, _)
leading_loop(digits, i, acc) ==
    IF i = 0 THEN acc
    ELSE LET lz == digit_leading_zeros(digits[i])
         IN  IF lz # BITS THEN acc + lz ELSE leading_loop(digits, i - 1, acc + lz)

\* leading_zeros that subtracts a whole digit when the width has no excess bits.
leading_zeros_unwrap_zero(v) ==
    LET zs == leading_loop(as_digit_slice(v), Len(as_digit_slice(v)), 0)
    IN  usize_sub(zs, BITS - unwrap_or(excess_bits(v.len), 0))

\* ApInt::leading_zeros.
leading_zeros(v) ==
    LET zs == leading_loop(as_digit_slice(v), Len(as_digit_slice(v)), 0)
    IN  usize_sub(zs, BITS - unwrap_or(excess_bits(v.len), BITS))

\* The loop of trailing_zeros: from the least significant digit up.
RECURSIVE trailing_loop(_, _, _)
trailing_loop(digits, i, acc) ==
    IF i > Len(digits) THEN acc
    ELSE LET tz == digit_trailing_zeros(digits[i])
         IN  IF tz # BITS THEN acc + tz ELSE trailing_loop(digits, i + 1, acc + tz)

\* trailing_zeros without the correction applied to a value that is zero.
trailing_zeros_uncorrected(v) == Num(trailing_loop(as_digit_slice(v), 1, 0))

\* trailing_zeros that applies the correction whatever the count is.
trailing_zeros_always_corrected(v) ==
    LET zs == trailing_loop(as_digit_slice(v), 1, 0)
    IN  usize_sub(zs, BITS - unwrap_or(excess_bits(v.len), BITS))

\* ApInt::trailing_zeros.
trailing_zeros(v) ==
    LET zs == trailing_loop(as_digit_slice(v), 1, 0)
    IN  IF zs >= to_usize(v.len)
        THEN usize_sub(zs, BITS - unwrap_or(excess_bits(v.len), BITS))
        ELSE Num(zs)

\* ------------------------------------------------------------------ inputs

\* The widths zero and ones are called with: around each digit boundary.
Widths ==
    UNION {{BITS * (k - 1) + 1, BITS * k - 1, BITS * k} : k \in 1 .. MaxDigits}

\* Bit patterns of a w-bit native integer: zero, all ones, the sign bit alone,
\* and a mixed one.
Patterns(w) == {{}, 0 .. (w - 1), {w - 1}, {0, w - 2}}

\* 0b0001_1011_0110_0111_u16, the value of the is_all_set tests.
U16Sample == {0, 1, 2, 5, 6, 8, 9, 11, 12}

U128Vals == Patterns(2 * BITS) \cup {{BITS - 1, BITS}}

\* The digit sequences handed to from_iter: none, one, or up to MaxDigits digits.
DigitVals == {ZERO, ONES, {0}}

DigitSeqs == UNION {[1 .. n -> DigitVals] : n \in 0 .. MaxDigits}

\* Values the constructors make: the native ones, zero and ones of every width
\* that builds, and zero with its most significant bit set.
Constructible ==
    {from_u8(v) : v \in Patterns(8)} \cup {from_u16(U16Sample)}
      \cup {from_u64(v) : v \in Patterns(BITS)}
      \cup {from_u128(v).val : v \in U128Vals}
      \cup {r.val : r \in {x \in {zero(w) : w \in Widths} \cup {ones(w) : w \in Widths} :
                             x.tag = "Ok"}}
      \cup {set_msb(r.val).val : r \in {x \in {zero(w) : w \in Widths} : x.tag = "Ok"}}

\* The right-hand operands a binary operation on a value of width w is called
\* with: the constructible values of that width, and two of another width, one
\* Inline and one External.
RhsValues(w) ==
    {r \in Constructible : r.len = w}
      \cup {from_u16(U16Sample), from_u128({BITS - 1, BITS}).val}

\* The positions the single-bit operations are called with: the ends of the
\* value, the first position past the width and the last position of the top digit.
BitPositions(w) == {0, w - 1, w, BITS * required_digits(w) - 1}

\* ------------------------------------------------------------------- state

VARIABLES
    a,      \* the value operated on, or NoValue
    op,     \* the last operation called
    arg,    \* its integer argument (a width or a bit position), else 0
    rhs,    \* the right-hand operand of a binary operation, as the call leaves it
    pre,    \* the value before the last operation
    res,    \* what the operation returned
    steps,  \* mutating operations applied since construction
    freed,  \* what the destructor released
    input   \* what the last constructor was given: its digits, or its val

vars == << a, op, arg, rhs, pre, res, steps, freed, input >>

Init ==
    /\ a = NoValue
    /\ op = "none"
    /\ arg = 0
    /\ rhs = NoValue
    /\ pre = NoValue
    /\ res = Status("Ok")
    /\ steps = 0
    /\ freed = << >>
    /\ input = << >>

IntoBinaryOps == {"into_bitand", "into_bitor", "into_bitxor"}

\* A panic ends the program; a drop, or a failed operation that consumed the
\* value, ends the value.
Running ==
    /\ res.tag # "Panic"
    /\ op # "drop"
    /\ ~(op \in IntoBinaryOps /\ res.tag # "Ok")

\* A constructor call returning r.
Construct(name, n, given, r) ==
    /\ Running
    /\ a = NoValue
    /\ a' = r.val
    /\ op' = name
    /\ arg' = n
    /\ rhs' = NoValue
    /\ pre' = NoValue
    /\ res' = Status(r.tag)
    /\ steps' = 0
    /\ input' = given
    /\ UNCHANGED freed

\* A call of a mutating operation on a, which leaves r.
Mutate(name, n, operand, r) ==
    /\ Running
    /\ a # NoValue
    /\ steps < MaxOps
    /\ a' = r.val
    /\ op' = name
    /\ arg' = n
    /\ rhs' = operand
    /\ pre' = a
    /\ res' = Status(r.tag)
    /\ steps' = steps + 1
    /\ input' = << >>
    /\ UNCHANGED freed

\* A call of an operation that takes a by value and returns r: the value it hands
\* back, or an error after it dropped the value.
Consume(name, operand, r) ==
    /\ Running
    /\ a # NoValue
    /\ steps < MaxOps
    /\ a' = r.val
    /\ op' = name
    /\ arg' = 0
    /\ rhs' = operand
    /\ pre' = a
    /\ res' = Status(r.tag)
    /\ steps' = steps + 1
    /\ input' = << >>
    /\ freed' = r.released

\* A call of a query on a, which returns r.
Query(name, n, r) ==
    /\ Running
    /\ a # NoValue
    /\ op' = name
    /\ arg' = n
    /\ rhs' = NoValue
    /\ pre' = a
    /\ res' = r
    /\ input' = << >>
    /\ UNCHANGED << a, steps, freed >>

FromU8 == \E v \in Patterns(8) : Construct("from_u8", 0, << v >>, Ok(from_u8(v)))

FromU16 == \E v \in Patterns(16) \cup {U16Sample} : Construct("from_u16", 0, << v >>, Ok(from_u16(v)))

FromU32 == \E v \in Patterns(32) : Construct("from_u32", 0, << v >>, Ok(from_u32(v)))

FromU64 == \E v \in Patterns(BITS) : Construct("from_u64", 0, << v >>, Ok(from_u64(v)))

FromU128 == \E v \in U128Vals : Construct("from_u128", 0, << v >>, from_u128(v))

FromIter ==
    \E digits \in DigitSeqs :
        \E spare \in {0, MaxSpare} :
            Construct("from_iter", Len(digits), digits,
                      from_iter(digits, Len(digits) + spare))

Zero == \E w \in Widths : Construct("zero", w, << >>, zero(w))

Ones == \E w \in Widths : Construct("ones", w, << >>, ones(w))

BitNot == Mutate("bitnot", 0, NoValue, Done(bitnot(a)))

IntoBitNot == Mutate("into_bitnot", 0, NoValue, Done(into_bitnot(a)))

BitAndAssign == \E r \in RhsValues(a.len) : Mutate("bitand_assign", 0, r, bitand_assign(a, r))

BitOrAssign == \E r \in RhsValues(a.len) : Mutate("bitor_assign", 0, r, bitor_assign(a, r))

BitXorAssign == \E r \in RhsValues(a.len) : Mutate("bitxor_assign", 0, r, bitxor_assign(a, r))

IntoBitAnd == \E r \in RhsValues(a.len) : Consume("into_bitand", r, into_bitand(a, r))

IntoBitOr == \E r \in RhsValues(a.len) : Consume("into_bitor", r, into_bitor(a, r))

IntoBitXor == \E r \in RhsValues(a.len) : Consume("into_bitxor", r, into_bitxor(a, r))

SetBitAt == \E pos \in BitPositions(a.len) : Mutate("set_bit_at", pos, NoValue, set_bit_at(a, pos))

UnsetBitAt ==
    \E pos \in BitPositions(a.len) : Mutate("unset_bit_at", pos, NoValue, unset_bit_at(a, pos))

FlipBitAt ==
    \E pos \in BitPositions(a.len) : Mutate("flip_bit_at", pos, NoValue, flip_bit_at(a, pos))

SetAll == Mutate("set_all", 0, NoValue, Done(set_all(a)))

UnsetAll == Mutate("unset_all", 0, NoValue, Done(unset_all(a)))

FlipAll == Mutate("flip_all", 0, NoValue, Done(flip_all(a)))

SetMsb == Mutate("set_msb", 0, NoValue, set_msb(a))

UnsetMsb == Mutate("unset_msb", 0, NoValue, unset_msb(a))

FlipMsb == Mutate("flip_msb", 0, NoValue, flip_msb(a))

GetBitAt == \E pos \in BitPositions(a.len) : Query("get_bit_at", pos, get_bit_at(a, pos))

IsAllSet == Query("is_all_set", 0, Flag(is_all_set(a)))

IsAllUnset == Query("is_all_unset", 0, Flag(is_all_unset(a)))

CountOnes == Query("count_ones", 0, Num(count_ones(a)))

CountZeros == Query("count_zeros", 0, count_zeros(a))

LeadingZeros == Query("leading_zeros", 0, leading_zeros(a))

TrailingZeros == Query("trailing_zeros", 0, trailing_zeros(a))

\* The value goes out of scope: impl Drop for ApInt runs.
Drop ==
    /\ Running
    /\ a # NoValue
    /\ freed' = drop(a)
    /\ a' = NoValue
    /\ op' = "drop"
    /\ arg' = 0
    /\ rhs' = NoValue
    /\ pre' = a
    /\ res' = Status("Ok")
    /\ input' = << >>
    /\ UNCHANGED steps

Next ==
    \/ FromU8 \/ FromU16 \/ FromU32 \/ FromU64 \/ FromU128 \/ FromIter
    \/ Zero \/ Ones
    \/ BitNot \/ IntoBitNot
    \/ BitAndAssign \/ BitOrAssign \/ BitXorAssign
    \/ IntoBitAnd \/ IntoBitOr \/ IntoBitXor
    \/ SetBitAt \/ UnsetBitAt \/ FlipBitAt
    \/ SetAll \/ UnsetAll \/ FlipAll
    \/ SetMsb \/ UnsetMsb \/ FlipMsb
    \/ GetBitAt \/ IsAllSet \/ IsAllUnset
    \/ CountOnes \/ CountZeros \/ LeadingZeros \/ TrailingZeros
    \/ Drop

Spec == Init /\ [][Next]_vars

\* ------------------------------------------------------------- properties

\* PartialEq of ApInt: the same width and the same digits.
Equal(x, y) == x.len = y.len /\ x.data = y.data

\* The excess-bits invariant of a value: no bit of the top digit at or above
\* excess_bits(width) is set.
ExcessBitsClear(v) ==
    excess_bits(v.len) # None =>
        \A bit \in v.data[Len(v.data)] : bit < excess_bits(v.len)[1]

BinaryOps ==
    {"bitand_assign", "bitor_assign", "bitxor_assign",
     "into_bitand", "into_bitor", "into_bitxor"}

\* C1: every constructed value, and every value left by a sequence of set_all,
\* unset_all, flip_all, bitnot, the single-bit operations and AND/OR/XOR with
\* equal-width operands that satisfy the invariant, has all bits of its top
\* digit at or above excess_bits(width) zero.
C1_ExcessBitsInvariant ==
    /\ \A r \in Constructible : ExcessBitsClear(r)
    /\ a # NoValue => ExcessBitsClear(a)

\* A two-digit value of a width that is no multiple of 64, left by a second
\* bitnot with bits set in its top digit.
C1_Witness ==
    /\ op = "bitnot"
    /\ steps = 2
    /\ storage(a.len) = "Ext"
    /\ excess_bits(a.len) # None
    /\ a.data[Len(a.data)] # ZERO

\* C2: zero(width) and ones(width) return a value of exactly that width for
\* every valid width, never a panic.
C2_ZeroOnesSucceed ==
    op \in {"zero", "ones"} => (res.tag = "Ok" /\ a # NoValue /\ a.len = arg)

\* C3: ones(width) returns a value with count_ones() = width and is_all_set().
C3_OnesAllSet ==
    op = "ones" => (a # NoValue /\ count_ones(a) = arg /\ is_all_set(a))

\* C4: is_all_set() returns true if and only if count_ones() = width.
C4_IsAllSetIffCountOnes ==
    op = "is_all_set" => (res.flag <=> (count_ones(a) = to_usize(a.len)))

\* C5: count_ones(v) + count_zeros(v) = width; the correction subtracted in
\* count_zeros is 64 - excess_bits for a width that is no multiple of 64 and 0
\* for one that is, and the subtraction never underflows.
C5_CountOnesPlusZeros ==
    a # NoValue =>
        LET r == count_zeros(a)
            correction == BITS - unwrap_or(excess_bits(a.len), BITS)
        IN  /\ r.tag = "Ok"
            /\ count_ones(a) + r.num = to_usize(a.len)
            /\ correction = IF a.len % BITS = 0 THEN 0 ELSE BITS - (a.len % BITS)
            /\ op = "count_zeros" => res = r

\* count_zeros has run on a two-digit value with unused bits in its top digit
\* that has both ones and zeros.
C5_Witness ==
    /\ op = "count_zeros"
    /\ storage(a.len) = "Ext"
    /\ excess_bits(a.len) # None
    /\ res.num > 0
    /\ count_ones(a) > 0

\* C6 as stated: leading_zeros(v) + trailing_zeros(v) <= width, with equality if
\* and only if v is zero.
C6_LeadingPlusTrailingAtMostWidth ==
    a # NoValue =>
        LET sum == leading_zeros(a).num + trailing_zeros(a).num
        IN  /\ sum <= to_usize(a.len)
            /\ (sum = to_usize(a.len)) <=> is_zero(a)

\* C6 as amended: for a non-zero v, leading_zeros(v) + trailing_zeros(v) is less
\* than width; for v zero, leading_zeros(v) and trailing_zeros(v) are both width,
\* so that their sum is twice the width.
C6_LeadingPlusTrailing ==
    a # NoValue =>
        LET lz == leading_zeros(a)
            tz == trailing_zeros(a)
        IN  /\ lz.tag = "Ok" /\ tz.tag = "Ok"
            /\ ~is_zero(a) => lz.num + tz.num < to_usize(a.len)
            /\ is_zero(a) => (lz.num = to_usize(a.len) /\ tz.num = to_usize(a.len))
            /\ op = "leading_zeros" => res = lz
            /\ op = "trailing_zeros" => res = tz

\* trailing_zeros has run on a two-digit zero of a width that is no multiple of 64.
C6_Witness ==
    /\ op = "trailing_zeros"
    /\ is_zero(a)
    /\ storage(a.len) = "Ext"
    /\ excess_bits(a.len) # None
    /\ res.num = to_usize(a.len)

\* C7: every External value holds a buffer whose length and allocated capacity
\* both equal required_digits(width), so that the destructor, which releases
\* length = capacity = the digit count of the recorded width, releases exactly
\* the allocation made; an Inline value releases nothing.
C7_ExactAllocation ==
    /\ (a # NoValue /\ storage(a.len) = "Ext") =>
           (Len(a.data) = required_digits(a.len) /\ a.cap = required_digits(a.len))
    /\ \A i \in DOMAIN freed :
           freed[i].allocated = freed[i].capacity /\ freed[i].length = freed[i].capacity
    /\ (op = "drop" /\ storage(pre.len) = "Inl") => freed = << >>
    /\ (op = "drop" /\ storage(pre.len) = "Ext") => Len(freed) = 1

\* C8: bitnot applied to what bitnot (or into_bitnot) left gives back the value
\* before it, bitnot applied twice to any value gives the value back, and
\* into_bitnot leaves what bitnot in place leaves.
C8_BitnotInvolution ==
    /\ op \in {"bitnot", "into_bitnot"} =>
           (Equal(bitnot(a), pre) /\ Equal(into_bitnot(a), pre))
    /\ a # NoValue =>
           (Equal(bitnot(bitnot(a)), a) /\ Equal(into_bitnot(a), bitnot(a)))

\* bitnot has run on a two-digit value with unused bits in its top digit, and
\* both the value before and the value after have bits set in the top digit.
C8_Witness ==
    /\ op = "bitnot"
    /\ storage(a.len) = "Ext"
    /\ excess_bits(a.len) # None
    /\ a.data[Len(a.data)] # ZERO
    /\ pre.data[Len(pre.data)] # ZERO

\* C9: De Morgan.  For the value left by a successful AND of pre and rhs, and for
\* the current value and every equal-width operand:
\* bitnot(a AND b) = (bitnot a) OR (bitnot b).
C9_DeMorgan ==
    /\ (op \in {"bitand_assign", "into_bitand"} /\ res.tag = "Ok") =>
           LET r == bitor_assign(bitnot(pre), bitnot(rhs))
           IN  r.tag = "Ok" /\ Equal(bitnot(a), r.val)
    /\ a # NoValue =>
           \A b \in {x \in RhsValues(a.len) : x.len = a.len} :
               LET l == bitand_assign(a, b)
                   r == bitor_assign(bitnot(a), bitnot(b))
               IN  l.tag = "Ok" /\ r.tag = "Ok" /\ Equal(bitnot(l.val), r.val)

\* A successful AND of two different non-zero two-digit values of a width that
\* is no multiple of 64.
C9_Witness ==
    /\ op = "bitand_assign"
    /\ res.tag = "Ok"
    /\ storage(a.len) = "Ext"
    /\ excess_bits(a.len) # None
    /\ ~is_zero(pre) /\ ~is_zero(rhs) /\ ~Equal(pre, rhs)

\* The digit operation of a binary operation.
DigitOp(name, l, r) ==
    CASE name \in {"bitand_assign", "into_bitand"} -> digit_and(l, r)
      [] name \in {"bitor_assign", "into_bitor"} -> digit_or(l, r)
      [] OTHER -> digit_xor(l, r)

\* C10: the binary operations fail with WidthMismatch whenever the widths of the
\* operands differ and succeed whenever they are equal, leaving in every digit i
\* of the receiver op(left[i], right[i]).
C10_BinaryOps ==
    op \in BinaryOps =>
        /\ pre.len # rhs.len => res.tag = "WidthMismatch"
        /\ pre.len = rhs.len =>
               /\ res.tag = "Ok"
               /\ a.len = pre.len
               /\ DOMAIN a.data = DOMAIN pre.data
               /\ \A i \in DOMAIN pre.data :
                      a.data[i] = DigitOp(op, pre.data[i], rhs.data[i])

\* A successful AND of two-digit values that changed the receiver.
C10_Witness ==
    /\ op = "bitand_assign"
    /\ res.tag = "Ok"
    /\ Len(a.data) = 2
    /\ a # pre

\* A binary operation refused for a width mismatch.
C10_WitnessMismatch ==
    /\ op \in BinaryOps
    /\ res.tag = "WidthMismatch"
    /\ pre.len # rhs.len

\* The single-bit operations.
BitWriteOps == {"set_bit_at", "unset_bit_at", "flip_bit_at"}

BitOps == BitWriteOps \cup {"get_bit_at"}

\* C11: for pos < width, get_bit_at(pos) is true after set_bit_at(pos), false
\* after unset_bit_at(pos), and after flip_bit_at(pos) the negation of what it
\* was before; for the value an operation left and for every valid position of
\* the current value.
C11_BitAddressing ==
    /\ (op \in BitWriteOps /\ arg < to_usize(pre.len)) =>
           LET now == get_bit_at(a, arg)
               before == get_bit_at(pre, arg)
           IN  /\ res.tag = "Ok" /\ now.tag = "Ok" /\ before.tag = "Ok"
               /\ op = "set_bit_at" => now.flag
               /\ op = "unset_bit_at" => ~now.flag
               /\ op = "flip_bit_at" => (now.flag <=> ~before.flag)
    /\ a # NoValue =>
           \A pos \in {p \in BitPositions(a.len) : p < to_usize(a.len)} :
               /\ get_bit_at(set_bit_at(a, pos).val, pos) = Flag(TRUE)
               /\ get_bit_at(unset_bit_at(a, pos).val, pos) = Flag(FALSE)
               /\ get_bit_at(flip_bit_at(a, pos).val, pos) = Flag(~get_bit_at(a, pos).flag)

\* set_bit_at has run on the most significant bit, in the second digit, of an
\* External value in which that bit was already set.
C11_Witness ==
    /\ op = "set_bit_at"
    /\ res.tag = "Ok"
    /\ storage(pre.len) = "Ext"
    /\ arg >= BITS
    /\ get_bit_at(pre, arg).flag
    /\ get_bit_at(a, arg).flag

\* C12: get_bit_at, set_bit_at, unset_bit_at and flip_bit_at return
\* InvalidBitPosition if and only if pos >= width, and succeed otherwise; a
\* rejected position, also one inside the unused part of the top digit, reaches
\* no digit.
C12_InvalidBitPosition ==
    op \in BitOps =>
        /\ (res.tag = "InvalidBitPosition") <=> (arg >= to_usize(pre.len))
        /\ arg < to_usize(pre.len) => res.tag = "Ok"
        /\ arg >= to_usize(pre.len) => a = pre

\* set_bit_at was refused for a position past the width that lies inside the
\* top digit.
C12_Witness ==
    /\ op = "set_bit_at"
    /\ res.tag = "InvalidBitPosition"
    /\ arg >= to_usize(pre.len)
    /\ arg < BITS * required_digits(pre.len)
    /\ a = pre

\* C13: from_iter fails with EmptyDigitSequence given no digit, makes an
\* Inline value of width 64 holding the digit given one, and an External value
\* of width n * 64 whose digit i is the i-th digit given n > 1; from_u128(val)
\* is the case n = 2 with the low 64 bits in digit 0 and the high 64 in digit 1.
C13_FromDigitSequence ==
    /\ op = "from_iter" =>
           /\ arg = Len(input)
           /\ arg = 0 => res.tag = "EmptyDigitSequence" /\ a = NoValue
           /\ arg = 1 =>
                  /\ res.tag = "Ok"
                  /\ a.len = BITS
                  /\ storage(a.len) = "Inl"
                  /\ a.data = << input[1] >>
           /\ arg > 1 =>
                  /\ res.tag = "Ok"
                  /\ a.len = arg * BITS
                  /\ storage(a.len) = "Ext"
                  /\ Len(a.data) = arg
                  /\ \A i \in 1 .. arg : a.data[i] = input[i]
    /\ op = "from_u128" =>
           /\ res.tag = "Ok"
           /\ a.len = 2 * BITS
           /\ storage(a.len) = "Ext"
           /\ Len(a.data) = 2
           /\ \A i \in 0 .. (2 * BITS - 1) :
                  i \in input[1] <=>
                      \/ i < BITS /\ i \in a.data[1]
                      \/ i >= BITS /\ (i - BITS) \in a.data[2]

\* from_iter has made an External value of two different digits.
C13_Witness ==
    /\ op = "from_iter"
    /\ arg = 2
    /\ res.tag = "Ok"
    /\ input[1] # input[2]
    /\ a.data = input

\* from_iter has refused an empty sequence of digits.
C13_WitnessEmpty ==
    /\ op = "from_iter"
    /\ arg = 0
    /\ res.tag = "EmptyDigitSequence"

\* from_u128 has split a value with bits in both halves.
C13_WitnessU128 ==
    /\ op = "from_u128"
    /\ res.tag = "Ok"
    /\ a.data[1] # a.data[2]
    /\ a.data[1] # ZERO
    /\ a.data[2] # ZERO

\* The quantities derived from a width n.
DerivedQuantities(n) ==
    /\ BITS * required_digits(n) >= n
    /\ BITS * (required_digits(n) - 1) < n
    /\ required_digits(n) = ((n - 1) \div BITS) + 1
    /\ (excess_bits(n) = None) <=> (n % BITS = 0)
    /\ n % BITS # 0 => excess_bits(n) = Some(n % BITS)
    /\ (storage(n) = "Inl") <=> (n <= BITS)
    /\ (storage(n) = "Inl") <=> (required_digits(n) = 1)
    /\ BITS * (required_digits(n) - 1) + unwrap_or(excess_bits(n), BITS) = n

\* C14: for every width n >= 1, required_digits(n) is ceil(n / 64),
\* excess_bits(n) is None when n mod 64 = 0 and Some(n mod 64) otherwise, the
\* storage is Inline exactly when n <= 64, which is when required_digits(n) = 1,
\* and 64 * (required_digits(n) - 1) + (excess_bits(n) or 64) = n; for every
\* width up to the width of the value, and the value has required_digits digits.
C14_DerivedQuantities ==
    a # NoValue =>
        /\ \A n \in 1 .. a.len : DerivedQuantities(n)
        /\ Len(a.data) = required_digits(a.len)
        /\ (a.cap = 0) <=> (storage(a.len) = "Inl")

\* An External value whose width is not a multiple of 64.
C14_Witness ==
    /\ a # NoValue
    /\ storage(a.len) = "Ext"
    /\ excess_bits(a.len) # None
    /\ Len(a.data) = 2

\* An External value whose width is a multiple of 64.
C14_WitnessNoExcess ==
    /\ a # NoValue
    /\ storage(a.len) = "Ext"
    /\ excess_bits(a.len) = None

\* The positions of the bits of v that are set, counted from the least
\* significant bit of digit 0.
BitsOf(v) == UNION {{BITS * (i - 1) + b : b \in v.data[i]} : i \in DOMAIN v.data}

\* C15: trailing_zeros is the index of the lowest set bit of a non-zero value
\* and the width of a zero one; the count of the loop reaches the width only
\* for zero, where it is corrected by 64 - excess_bits; the result never
\* exceeds the width.
C15_TrailingZeros ==
    a # NoValue =>
        LET tz == trailing_zeros(a)
            zs == trailing_loop(as_digit_slice(a), 1, 0)
            correction == BITS - unwrap_or(excess_bits(a.len), BITS)
        IN  /\ tz.tag = "Ok"
            /\ BitsOf(a) # {} => tz.num = SetMin(BitsOf(a)) /\ zs < to_usize(a.len)
            /\ BitsOf(a) = {} => tz.num = to_usize(a.len) /\ zs = tz.num + correction
            /\ zs < to_usize(a.len) => tz.num = zs
            /\ tz.num <= to_usize(a.len)
            /\ op = "trailing_zeros" => res = tz

\* trailing_zeros has run on a two-digit value whose lowest set bit is in the
\* second digit.
C15_Witness ==
    /\ op = "trailing_zeros"
    /\ res.tag = "Ok"
    /\ BitsOf(a) # {}
    /\ res.num >= BITS
    /\ res.num = SetMin(BitsOf(a))

\* trailing_zeros has run on a zero whose width is not a multiple of 64.
C15_WitnessZero ==
    /\ op = "trailing_zeros"
    /\ BitsOf(a) = {}
    /\ excess_bits(a.len) # None
    /\ res = Num(to_usize(a.len))

\* C16: leading_zeros is width - 1 - the index of the highest set bit of a
\* non-zero value and the width of a zero one; subtracting the correction
\* 64 - excess_bits never underflows, and the correction is 0 for a width that
\* is a multiple of 64.
C16_LeadingZeros ==
    a # NoValue =>
        LET lz == leading_zeros(a)
            zs == leading_loop(as_digit_slice(a), Len(as_digit_slice(a)), 0)
            correction == BITS - unwrap_or(excess_bits(a.len), BITS)
        IN  /\ lz.tag = "Ok"
            /\ zs >= correction
            /\ lz.num = zs - correction
            /\ to_usize(a.len) % BITS = 0 => correction = 0
            /\ BitsOf(a) # {} => lz.num = to_usize(a.len) - 1 - SetMax(BitsOf(a))
            /\ BitsOf(a) = {} => lz.num = to_usize(a.len)
            /\ op = "leading_zeros" => res = lz

\* leading_zeros has run on a non-zero value with excess bits whose top digit
\* is zero.
C16_Witness ==
    /\ op = "leading_zeros"
    /\ res.tag = "Ok"
    /\ BitsOf(a) # {}
    /\ excess_bits(a.len) # None
    /\ Len(a.data) = 2
    /\ a.data[2] = ZERO
    /\ res.num = to_usize(a.len) - 1 - SetMax(BitsOf(a))

\* leading_zeros has run on a value of a whole number of digits with its most
\* significant bit set.
C16_WitnessNoExcess ==
    /\ op = "leading_zeros"
    /\ excess_bits(a.len) = None
    /\ res = Num(0)

AssignOps == {"bitand_assign", "bitor_assign", "bitxor_assign"}

\* C17: when set_bit_at, unset_bit_at or flip_bit_at fails with
\* InvalidBitPosition, or bitand_assign, bitor_assign or bitxor_assign fails
\* with WidthMismatch, the width and every digit of the receiver are what they
\* were before the call, and the right-hand operand is the value it was.
C17_UnchangedOnError ==
    /\ (op \in BitWriteOps /\ res.tag = "InvalidBitPosition") =>
           /\ a.len = pre.len
           /\ a.data = pre.data
           /\ a.cap = pre.cap
    /\ (op \in AssignOps /\ res.tag = "WidthMismatch") =>
           /\ a.len = pre.len
           /\ a.data = pre.data
           /\ a.cap = pre.cap
           /\ rhs \in RhsValues(pre.len)
           /\ rhs.len # pre.len
    /\ (op \in BitWriteOps \cup AssignOps) =>
           res.tag \in {"Ok", "InvalidBitPosition", "WidthMismatch"}

\* set_bit_at was refused on a value with a bit set in its top digit, for a
\* position inside that digit.
C17_Witness ==
    /\ op = "set_bit_at"
    /\ res.tag = "InvalidBitPosition"
    /\ arg < BITS * required_digits(pre.len)
    /\ pre.data[Len(pre.data)] # ZERO
    /\ a = pre

\* bitxor_assign was refused on a non-zero receiver for a non-zero operand of
\* another width.
C17_WitnessMismatch ==
    /\ op = "bitxor_assign"
    /\ res.tag = "WidthMismatch"
    /\ BitsOf(pre) # {}
    /\ BitsOf(rhs) # {}
    /\ a = pre

MsbOps == {"set_msb", "unset_msb", "flip_msb"}

WholeValueOps == {"set_all", "unset_all", "flip_all", "bitnot"}

\* The call left the width, the digit count and the storage of the receiver.
ShapeKept ==
    /\ a.len = pre.len
    /\ Len(a.data) = Len(pre.data)
    /\ storage(a.len) = storage(pre.len)
    /\ a.cap = pre.cap

\* C18: a successful set_bit_at(pos), unset_bit_at(pos) or flip_bit_at(pos),
\* and set_msb, unset_msb and flip_msb at pos = width - 1, which never fail,
\* change at most the bit at pos and leave every other bit, the width, the
\* digit count and the storage; set_all, unset_all, flip_all, bitnot and the
\* binary assign operations leave the width and the storage of the receiver,
\* and the binary operations leave the right-hand operand.
C18_Frame ==
    /\ (op \in BitWriteOps /\ res.tag = "Ok") =>
           /\ ShapeKept
           /\ BitsOf(a) \ {arg} = BitsOf(pre) \ {arg}
    /\ op \in MsbOps =>
           /\ res.tag = "Ok"
           /\ ShapeKept
           /\ BitsOf(a) \ {pre.len - 1} = BitsOf(pre) \ {pre.len - 1}
    /\ op \in WholeValueOps \cup AssignOps => ShapeKept
    /\ op \in AssignOps => rhs \in RhsValues(pre.len)

\* flip_bit_at has changed the most significant bit, in the second digit, of a
\* value with other bits set.
C18_Witness ==
    /\ op = "flip_bit_at"
    /\ res.tag = "Ok"
    /\ arg >= BITS
    /\ a # pre
    /\ BitsOf(pre) \ {arg} # {}
    /\ BitsOf(a) \ {arg} = BitsOf(pre) \ {arg}

\* set_msb has set the most significant bit of a two-digit value.
C18_WitnessMsb ==
    /\ op = "set_msb"
    /\ Len(pre.data) = 2
    /\ a # pre
    /\ (pre.len - 1) \in BitsOf(a)

\* flip_all has changed an External value with excess bits.
C18_WitnessWhole ==
    /\ op = "flip_all"
    /\ storage(pre.len) = "Ext"
    /\ excess_bits(pre.len) # None
    /\ a # pre
    /\ a.len = pre.len

====
